---- MODULE Spec2Model ----
(***************************************************************************)
(* Lazy-scrape coordination and geo-filtered retrieval of the WTA trail    *)
(* search handler (beta_graph.servers.wta.handlers and chroma_store).      *)
(*                                                                         *)
(* Units: latitudes and longitudes are integers in tenths of a degree,     *)
(* radii are whole miles as in config.py, distances are hundredths of a    *)
(* mile (the precision round(dist, 2) keeps).  Strings the code            *)
(* normalises or compares are sequences of one-character strings.          *)
(***************************************************************************)
EXTENDS Integers, Sequences, FiniteSets, TLC

VARIABLES
  store,               \* the Chroma collection: slug -> stored metadata
  ranking,             \* the collection's relevance order of the slugs, per query
  scraping_locations,  \* handlers._scraping_locations
  scraped_locations,   \* handlers._scraped_locations
  call,                \* per caller: the locals of its search_trails call
  resp,                \* per caller: what its last search_trails call returned
  task,                \* per worker: a running lazy_scrape_and_load
  ncalls,              \* search_trails and scrape_region calls started so far
  finished,            \* keys whose background scrape ran to its end and marked them
  probe,               \* inputs and output of a direct WTAVectorStore.search call
  config,              \* the settings config.py read from the environment at import
  upserted,            \* the last direct WTAVectorStore.add_trails call
  validated,           \* input and output of a validate_alltrails_link call
  handle               \* the module global _store and the get_store calls under way

vars == <<store, ranking, scraping_locations, scraped_locations, call, resp, task,
          ncalls, finished, probe, config, upserted, validated, handle>>

----------------------------------------------------------------------------
(* Python values *)

\* Python's None where a float is optional (a value outside every coordinate).
None == 0 - 99999

\* bool(x) of an optional number: None and 0 are falsy.
Truthy(x) == x # None /\ x # 0

Min(a, b) == IF a < b THEN a ELSE b

Abs(x) == IF x < 0 THEN 0 - x ELSE x

Upper == <<"A","B","C","D","E","F","G","H","I","J","K","L","M",
           "N","O","P","Q","R","S","T","U","V","W","X","Y","Z">>

Lowercase == <<"a","b","c","d","e","f","g","h","i","j","k","l","m",
               "n","o","p","q","r","s","t","u","v","w","x","y","z">>

\* str.lower() on a sequence of characters.
lower(s) ==
  [i \in 1..Len(s) |->
     IF \E k \in 1..26 : Upper[k] = s[i]
     THEN Lowercase[CHOOSE k \in 1..26 : Upper[k] = s[i]]
     ELSE s[i]]

\* str.strip(): drop the leading and trailing blanks.
strip(s) ==
  LET nb == {i \in 1..Len(s) : s[i] # " "}
  IN  IF nb = {} THEN <<>>
      ELSE LET lo == CHOOSE i \in nb : \A j \in nb : i <= j
               hi == CHOOSE i \in nb : \A j \in nb : j <= i
           IN  SubSeq(s, lo, hi)

\* `w in s` for strings: w occurs in s as a contiguous run.
contains(s, w) ==
  \E k \in 0..(Len(s) - Len(w)) : SubSeq(s, k + 1, k + Len(w)) = w

\* location.lower().strip()
Normalize(location) == strip(lower(location))

----------------------------------------------------------------------------
(* Configuration *)

DEFAULT_RADIUS_MILES == 20

LAZY_SCRAPE_RADIUS_MILES == 50

\* Result count below which search_trails retries wider and evaluates a lazy scrape.
FEW_RESULTS == 3

\* Over-fetch factor of a distance-filtered search.
FETCH_FACTOR == 20

LAZY_SCRAPE_SKIP_LOCATIONS ==
  { <<"w","a","s","h","i","n","g","t","o","n">>,
    <<"w","a">>,
    <<"w","a","s","h","i","n","g","t","o","n"," ","s","t","a","t","e">>,
    <<"c","a","l","i","f","o","r","n","i","a">>,
    <<"c","a">>,
    <<"o","r","e","g","o","n">>,
    <<"o","r">>,
    <<"i","d","a","h","o">>,
    <<"i","d">>,
    <<"s","e","a","t","t","l","e"," ","a","r","e","a">>,
    <<"p","u","g","e","t"," ","s","o","u","n","d">> }

\* The words that make a location look like a trail or feature.
FEATURE_WORDS ==
  { <<"s","p","r","u","c","e">>, <<"c","e","d","a","r">>, <<"m","o","s","s","e","s">> }

----------------------------------------------------------------------------
(* The world outside: trails on the site, places the geocoder knows *)

Slugs == {"s1", "s2", "s3", "s4", "s5"}

\* Coordinates the trail pages carry.  All lie on one meridian, at 0, 6.9, 13.8,
\* 34.5 and 69.1 miles from (47.5, -121.8).
TrailLat(s) ==
  CASE s = "s1" -> 475 [] s = "s2" -> 476 [] s = "s3" -> 477
    [] s = "s4" -> 480 [] s = "s5" -> 485

TrailLon(s) == 0 - 1218

\* The alerts and the trip reports the trail pages carried when they were scraped.
TrailAlerts(s) == IF s \in {"s1", "s3"} THEN <<"washout">> ELSE <<>>

TrailReports(s) == IF s \in {"s1", "s4"} THEN <<"snow">> ELSE <<>>

\* Great-circle distance in hundredths of a mile.  On one meridian dlam = 0, so
\* a = sin(dphi/2)^2, c = |dphi| and R*c = 3959 * pi/180 * |dlat| = 6.91 miles per
\* tenth of a degree; points on different meridians of the model are thousands of
\* miles apart.
haversine_miles(lat1, lon1, lat2, lon2) ==
  IF lon1 = lon2 THEN 691 * Abs(lat2 - lat1) ELSE 499978

----------------------------------------------------------------------------
(* WTAVectorStore *)

\* A stored record: present or not, its coordinate (None, None when the record
\* carries no location), the alerts and trip reports of its metadata (lists of
\* texts, [] when the key is missing) and the revision of the trail page its
\* document and metadata were built from.
Absent ==
  [present |-> FALSE, lat |-> None, lon |-> None, alerts |-> <<>>,
   trip_reports |-> <<>>, content |-> 0]

Stored(la, lo) ==
  [present |-> TRUE, lat |-> la, lon |-> lo, alerts |-> <<>>,
   trip_reports |-> <<>>, content |-> 1]

\* The WTATrail scrape_trail_detail builds from revision `content` of a trail page.
WTATrail(slug, content) ==
  [slug |-> slug, lat |-> TrailLat(slug), lon |-> TrailLon(slug),
   alerts |-> TrailAlerts(slug), trip_reports |-> TrailReports(slug),
   content |-> content]

\* _trail_to_metadata and to_searchable_text: what is stored for a trail.
trail_to_metadata(trail) ==
  [present |-> TRUE, lat |-> trail.lat, lon |-> trail.lon, alerts |-> trail.alerts,
   trip_reports |-> trail.trip_reports, content |-> trail.content]

\* collection.count()
Count(st) == Cardinality({s \in Slugs : st[s].present})

\* The first n elements of a sequence.
Take(seq, n) == SubSeq(seq, 1, Min(n, Len(seq)))

\* collection.query(n_results = fetch_n): the stored slugs, most relevant first.
Query(st, rank, fetch_n) ==
  Take(SelectSeq(rank, LAMBDA s : st[s].present), fetch_n)

\* The loop over the candidates: skip those without a coordinate or beyond the
\* radius when a centre and a radius are given, attach the distance, stop at
\* n_results.
RECURSIVE FilterLoop(_, _, _, _, _, _, _, _)
FilterLoop(st, cands, i, trails, n_results, center_lat, center_lon, radius_miles) ==
  IF i > Len(cands) THEN trails
  ELSE
    LET s      == cands[i]
        geo    == center_lat # None /\ center_lon # None /\ radius_miles # None
        nocoord == st[s].lat = None \/ st[s].lon = None
        dist   == haversine_miles(center_lat, center_lon, st[s].lat, st[s].lon)
    IN  IF geo /\ (nocoord \/ dist > radius_miles * 100)
        THEN FilterLoop(st, cands, i + 1, trails, n_results,
                        center_lat, center_lon, radius_miles)
        ELSE
          LET more == Append(trails,
                             [slug |-> s,
                              distance_miles |-> IF geo THEN dist ELSE None])
          IN  IF Len(more) >= n_results THEN more
              ELSE FilterLoop(st, cands, i + 1, more, n_results,
                              center_lat, center_lon, radius_miles)

\* fetch_n as line 108 computes it (truthiness of the centre and the radius),
\* before the cap at count.
FetchWanted(n_results, center_lat, center_lon, radius_miles) ==
  IF Truthy(center_lat) /\ Truthy(center_lon) /\ Truthy(radius_miles)
  THEN n_results * FETCH_FACTOR
  ELSE n_results

\* Faulty variant of search: the collection is queried even when it is empty.
SearchQueriesEmptyStore(st, rank, n_results, center_lat, center_lon, radius_miles) ==
  LET fetch_n == Min(FetchWanted(n_results, center_lat, center_lon, radius_miles),
                     Count(st))
  IN  [trails  |-> FilterLoop(st, Query(st, rank, fetch_n), 1, <<>>, n_results,
                              center_lat, center_lon, radius_miles),
       queried |-> TRUE,
       fetch_n |-> fetch_n]

\* WTAVectorStore.search: the trails returned, whether collection.query was
\* called and the n_results it was called with.
search(st, rank, n_results, center_lat, center_lon, radius_miles) ==
  LET count   == Count(st)
      fetch_n == Min(FetchWanted(n_results, center_lat, center_lon, radius_miles),
                     count)
  IN  IF count = 0
      THEN [trails |-> <<>>, queried |-> FALSE, fetch_n |-> 0]
      ELSE [trails  |-> FilterLoop(st, Query(st, rank, fetch_n), 1, <<>>, n_results,
                                   center_lat, center_lon, radius_miles),
            queried |-> TRUE,
            fetch_n |-> fetch_n]

----------------------------------------------------------------------------
(* Bounds of the model *)

\* search_trails calls started in one run.
MaxCalls == 2

\* scrape_region calls started in one run.
MaxRegionCalls == 1

----------------------------------------------------------------------------
(* Strings of the model *)

Roy == <<"R","o","y">>

RoyPadded == <<" ","r","o","y">>

WA == <<"W","A">>

CedarFalls == <<"C","e","d","a","r"," ","F","a","l","l","s">>

\* A place the geocoder puts on the equator.
Equator == <<"E","q">>

QLake == <<"l","a","k","e">>

QRoy == <<"r","o","y"," ">>

\* No location: None and "" are both falsy wherever search_trails tests it.
NoLocation == <<>>

\* geocode_forward(location, limit=1): what the places API can answer for a place
\* it knows.  Every place of the model resolves to (47.5, -121.8), but Equator,
\* which resolves to (0.0, -121.8).
GeocodeOutcomes(location) ==
  { [kind |-> "ok", lat |-> IF location = Equator THEN 0 ELSE 475, lon |-> 0 - 1218],
    [kind |-> "empty", lat |-> None, lon |-> None],      \* ZERO_RESULTS: []
    [kind |-> "nolat", lat |-> None, lon |-> None],      \* a result without geometry
    [kind |-> "raise", lat |-> None, lon |-> None] }     \* transport or API error

\* The slugs the region listing can yield: the listing, or [] when the fetch fails.
WebList == <<"s3", "s4", "s5">>

SlugLists == {WebList, <<>>}

----------------------------------------------------------------------------
(* Processes *)

Callers == {"c1", "c2"}

Threads == {"t1", "t2"}

Region == "r1"

Workers == Threads \cup {Region}

\* f"{radius_miles}": a float renders with its fraction, an int without.
RenderRadius(r) == <<r.v, IF r.isfloat THEN ".0" ELSE "">>

PyFloat(v) == [v |-> v, isfloat |-> TRUE]

PyInt(v) == [v |-> v, isfloat |-> FALSE]

\* loc_key = f"{normalized location}|{radius}"
LocKey(loc_normalized, r) == <<loc_normalized, RenderRadius(r)>>

IdleCall ==
  [pc |-> "idle", query |-> <<>>, n_results |-> 0, location |-> NoLocation,
   radius_miles |-> None, lazy_scrape |-> FALSE, rescrape |-> FALSE,
   center_lat |-> None, center_lon |-> None, results |-> <<>>,
   already_scraped |-> FALSE, in_progress |-> FALSE,
   geocoded |-> "none", first |-> <<>>, wide |-> <<>>, issued |-> <<>>,
   queries |-> 0, eligible |-> FALSE, launched |-> FALSE, kept |-> FALSE,
   id |-> 0, rivals |-> {}, meta |-> <<>>, enriched |-> <<>>, fetched |-> <<>>,
   count |-> None, stale |-> FALSE]

NoResp == [advisory |-> "pending", trails |-> <<>>]

FreeTask ==
  [pc |-> "free", location |-> <<>>, radius |-> PyFloat(0), lat |-> None, lon |-> None,
   slugs |-> <<>>, i |-> 0, ntrails |-> 0, loc_key |-> <<>>, outcome |-> "none",
   geocoded |-> "none", added |-> {}, rescrape |-> FALSE]

\* The collections a run can start from: the Chroma directory persists between
\* runs, so the store may already hold trails.
InitialStores ==
  { [s \in Slugs |-> Absent],
    [s \in Slugs |-> IF s \in {"s1", "s2"} THEN trail_to_metadata(WTATrail(s, 1))
                     ELSE Absent],
    [s \in Slugs |-> IF s \in {"s1", "s2", "s3"} THEN trail_to_metadata(WTATrail(s, 1))
                     ELSE Absent] }

\* The relevance orders of the model: one per query text.
Rankings ==
  { [q \in {QLake, QRoy} |-> IF q = QLake THEN <<"s1","s2","s3","s4","s5">>
                             ELSE <<"s5","s4","s3","s2","s1">>] }

\* No validate_alltrails_link call yet.
NoValidation ==
  [done |-> FALSE, input |-> <<>>,
   out |-> [valid |-> FALSE, reason |-> "none", url |-> <<>>]]

\* No direct add_trails call yet.
NoUpsert == [calls |-> 0, trails |-> <<>>, before |-> [s \in Slugs |-> Absent], n |-> 0]

\* The settings of a run: WTA_ENABLE_FRESH_RAG is unset or true (the default), or
\* false.
Configs == [ENABLE_FRESH_RAG : BOOLEAN]

\* config.py line 11 with WTA_ENABLE_FRESH_RAG unset.
DefaultConfig == [ENABLE_FRESH_RAG |-> TRUE]

NoProbe == [done |-> FALSE, n_results |-> 0, center_lat |-> None, center_lon |-> None,
            radius_miles |-> None, rank |-> <<>>, out |-> <<>>, queried |-> FALSE,
            fetch_n |-> 0]

\* Who may be first to call get_store: the search_trails calls (line 81) and the
\* lazy_scrape_and_load run by a scrape_region call (line 48). A background
\* thread is started by a search_trails call that already has its store.
Getters == Callers \cup {Region}

\* Before the first get_store: _store is None, no WTAVectorStore was constructed.
NoHandle ==
  [store |-> None, built |-> 0,
   pc |-> [g \in Getters |-> "out"],
   made |-> [g \in Getters |-> None],
   got |-> [g \in Getters |-> None]]

Init ==
  /\ store \in InitialStores
  /\ ranking \in Rankings
  /\ scraping_locations = {}
  /\ scraped_locations = {}
  /\ call = [p \in Callers |-> IdleCall]
  /\ resp = [p \in Callers |-> NoResp]
  /\ task = [w \in Workers |-> FreeTask]
  /\ ncalls = [search |-> 0, region |-> 0]
  /\ finished = {}
  /\ probe = NoProbe
  /\ config = DefaultConfig
  /\ upserted = NoUpsert
  /\ validated = NoValidation
  /\ handle = NoHandle

----------------------------------------------------------------------------
(* search_trails *)

Active(q) == call[q].pc \notin {"idle", "done"}

\* return: the call ends and its response is what the caller sees.
Return(p, c, advisory, trails) ==
  /\ call' = [call EXCEPT ![p] = [c EXCEPT !.pc = "done"]]
  /\ resp' = [resp EXCEPT ![p] = [advisory |-> advisory, trails |-> trails]]

Goto(p, c, pc) ==
  /\ call' = [call EXCEPT ![p] = [c EXCEPT !.pc = pc]]
  /\ UNCHANGED resp

\* radius = radius_miles if radius_miles is not None else DEFAULT_RADIUS_MILES
Radius(radius_miles) ==
  IF radius_miles # None THEN radius_miles ELSE DEFAULT_RADIUS_MILES

\* The key search_trails tracks a location under: the wide radius, a float.
SearchKey(location) == LocKey(Normalize(location), PyFloat(LAZY_SCRAPE_RADIUS_MILES))

\* Faulty variant of WiderWanted: the retry no longer looks at the radius of the call.
WiderWantedAnyRadius(center_lat, radius, results) ==
  center_lat # None /\ Len(results) < FEW_RESULTS

\* Line 110: the wide-radius retry is wanted.
WiderWanted(center_lat, radius, results) ==
  center_lat # None /\ radius = DEFAULT_RADIUS_MILES /\ Len(results) < FEW_RESULTS

\* Lines 119-120: the wider result set replaces the first only if it is larger.
Adopt(results, wider_results) ==
  IF Len(wider_results) > Len(results) THEN wider_results ELSE results

\* Faulty variant of should_scrape: the lazy_scrape argument is not looked at.
ShouldScrapeIgnoresFlag(results, location, lazy_scrape, center_lat) ==
  /\ (results = <<>> \/ Len(results) < FEW_RESULTS)
  /\ location # NoLocation
  /\ center_lat # None

\* Faulty variant of should_scrape: a scrape is wanted only when nothing was found.
ShouldScrapeOnlyWhenEmpty(results, location, lazy_scrape, center_lat) ==
  /\ results = <<>>
  /\ location # NoLocation
  /\ lazy_scrape
  /\ center_lat # None

\* Lines 147-148.
should_scrape(results, location, lazy_scrape, center_lat) ==
  /\ (results = <<>> \/ Len(results) < FEW_RESULTS)
  /\ location # NoLocation
  /\ lazy_scrape
  /\ center_lat # None

\* Faulty variant of SkipScrape: a location equal to the query text is not rejected.
SkipScrapeNoQueryCheck(results, location, query) ==
  LET loc_normalized == Normalize(location)
  IN  \/ loc_normalized \in LAZY_SCRAPE_SKIP_LOCATIONS
      \/ \E w \in FEATURE_WORDS : contains(loc_normalized, w)

\* Faulty variant of SkipScrape: the deny-list is not consulted.
SkipScrapeNoDenyList(results, location, query) ==
  LET loc_normalized == Normalize(location)
  IN  \/ \E w \in FEATURE_WORDS : contains(loc_normalized, w)
      \/ (results = <<>> /\ loc_normalized = Normalize(query))

\* Lines 151-165: the location is rejected for a lazy scrape.
SkipScrape(results, location, query) ==
  LET loc_normalized == Normalize(location)
  IN  \/ loc_normalized \in LAZY_SCRAPE_SKIP_LOCATIONS
      \/ \E w \in FEATURE_WORDS : contains(loc_normalized, w)
      \/ (results = <<>> /\ loc_normalized = Normalize(query))

\* Faulty variant of already_scraped: the forced-rescrape flag is read the wrong way
\* round.
AlreadyScrapedFlipped(loc_key, scraped, rescrape) == loc_key \in scraped /\ rescrape

\* Line 170, read under the lock.
already_scraped(loc_key, scraped, rescrape) == loc_key \in scraped /\ ~rescrape

\* Faulty variant of in_progress: a scrape is taken to be running.
InProgressAssumed(loc_key, scraping) == TRUE

\* Line 171, read under the lock.
in_progress(loc_key, scraping) == loc_key \in scraping

\* Faulty variant of ReturnAfterEvaluation: the final `if not results` advisory is
\* missing.
ReturnResultsOnly(p, c) == Return(p, c, "none", c.results)

\* Faulty variant of ReturnAfterEvaluation: the advisory is returned whatever was found.
ReturnFetchingAlways(p, c) == Return(p, c, "_fetching", <<>>)

\* Faulty variant of ReturnAfterEvaluation: the advisory is put in front of the
\* results instead of replacing them.
ReturnFetchingWithResults(p, c) == Return(p, c, "_fetching", c.results)

\* Lines 208-215: what a call that went through the lazy-scrape evaluation returns.
ReturnAfterEvaluation(p, c) ==
  IF c.results = <<>> THEN Return(p, c, "_fetching", <<>>)
  ELSE Return(p, c, "none", c.results)

\* The alerts and trip reports the result dicts carry when search returns them:
\* those of the stored metadata.
Meta(st, trails) ==
  [i \in 1..Len(trails) |->
     [slug |-> trails[i].slug, alerts |-> st[trails[i].slug].alerts,
      trip_reports |-> st[trails[i].slug].trip_reports]]

\* What the trail pages show at query time.
FreshAlerts(slug) == IF slug \in {"s1", "s2"} THEN <<"bridge out">> ELSE <<>>

FreshReports(slug) == IF slug \in {"s2", "s3"} THEN <<"dry">> ELSE <<>>

\* How a fetch_fresh_trail_info future can end: the page was fetched, the page
\* request failed (the function returns its empty dict), or an exception escaped.
FetchOutcomes == {"fresh", "failed", "raised"}

\* fetch_fresh_trail_info(slug): the dict it returns when it returns.
fetch_fresh_trail_info(slug, outcome) ==
  IF outcome = "fresh"
  THEN [alerts |-> FreshAlerts(slug), trip_reports |-> FreshReports(slug)]
  ELSE [alerts |-> <<>>, trip_reports |-> <<>>]

\* Lines 134-143 for one result: the dict's alerts and trip reports are replaced
\* by those of the returned dict; an exception leaves the dict as it was.
EnrichOne(r, outcome) ==
  IF outcome = "raised" THEN r
  ELSE LET fresh == fetch_fresh_trail_info(r.slug, outcome)
       IN  [r EXCEPT !.alerts = fresh.alerts, !.trip_reports = fresh.trip_reports]

\* Lines 145-166, after the searches: return the results, reject the location,
\* or go on to consult the scrape state.
AfterSearch(p, c) ==
  IF ~should_scrape(c.results, c.location, c.lazy_scrape, c.center_lat)
  THEN Return(p, c, "none", c.results)
  ELSE IF SkipScrape(c.results, c.location, c.query)
  THEN Return(p, c, "_skip_scrape", <<>>)
  ELSE Goto(p, c, "state")

\* Line 123: results to enrich and the setting on send the call through the
\* enrichment first.
AfterQuery(p, c) ==
  IF c.results # <<>> /\ config.ENABLE_FRESH_RAG THEN Goto(p, c, "enrich")
  ELSE AfterSearch(p, c)

\* Lines 81-85: a call starts.
Call(p, a) ==
  /\ ~Active(p)
  /\ ncalls.search < MaxCalls
  /\ ncalls' = [ncalls EXCEPT !.search = @ + 1]
  /\ LET c == [IdleCall EXCEPT
                 !.pc = IF a.location # NoLocation THEN "geocode" ELSE "search1",
                 !.query = a.query, !.n_results = a.n_results,
                 !.location = a.location, !.radius_miles = a.radius_miles,
                 !.lazy_scrape = a.lazy_scrape, !.rescrape = a.rescrape,
                 !.kept = /\ a.location # NoLocation
                          /\ SearchKey(a.location) \in scraped_locations
                          /\ SearchKey(a.location) \in finished,
                 !.id = ncalls.search + 1]
     IN  call' = [call EXCEPT ![p] = c]
  /\ resp' = [resp EXCEPT ![p] = NoResp]
  /\ UNCHANGED <<store, ranking, scraping_locations, scraped_locations, task, finished, probe, config, upserted, validated, handle>>

\* Line 88: the geocoder answered with a result that has a latitude.
Located(g) == g.kind = "ok"

\* Faulty variant of GeocodeFailed: the early return is missing.
GeocodeFailedIgnored(center_lat) == FALSE

\* Line 94: no centre was found for the location.
GeocodeFailed(center_lat) == center_lat = None

\* Lines 85-98: geocode the location; no coordinate ends the call.
Geocode(p) ==
  /\ call[p].pc = "geocode"
  /\ \E g \in GeocodeOutcomes(call[p].location) :
       LET c == IF Located(g)
                THEN [call[p] EXCEPT !.center_lat = g.lat, !.center_lon = g.lon,
                                     !.geocoded = g.kind]
                ELSE [call[p] EXCEPT !.geocoded = g.kind]
       IN  IF GeocodeFailed(c.center_lat)
           THEN Return(p, c, "_geocode_failed", <<>>)
           ELSE Goto(p, c, "search1")
  /\ UNCHANGED <<store, ranking, scraping_locations, scraped_locations, task,
                 ncalls, finished, probe, config, upserted, validated, handle>>

\* Lines 100-110: the first search.
Search1(p) ==
  /\ call[p].pc = "search1"
  /\ LET c  == call[p]
         r  == search(store, ranking[c.query], c.n_results, c.center_lat, c.center_lon,
                      IF Truthy(c.center_lat) THEN Radius(c.radius_miles) ELSE None)
         c1 == [c EXCEPT !.results = r.trails, !.first = r.trails,
                         !.issued = Append(@, IF Truthy(c.center_lat)
                                              THEN Radius(c.radius_miles) ELSE None),
                         !.queries = @ + (IF r.queried THEN 1 ELSE 0),
                         !.meta = Meta(store, r.trails),
                         !.enriched = Meta(store, r.trails),
                         !.count = Count(store)]
     IN  IF WiderWanted(c.center_lat, Radius(c.radius_miles), r.trails)
         THEN Goto(p, c1, "search2")
         ELSE AfterQuery(p, c1)
  /\ UNCHANGED <<store, ranking, scraping_locations, scraped_locations, task,
                 ncalls, finished, probe, config, upserted, validated, handle>>

\* Lines 111-120: the search with the wide radius.
Search2(p) ==
  /\ call[p].pc = "search2"
  /\ LET c  == call[p]
         r  == search(store, ranking[c.query], c.n_results, c.center_lat, c.center_lon,
                      LAZY_SCRAPE_RADIUS_MILES)
         m  == IF Adopt(c.results, r.trails) = c.results THEN c.meta
               ELSE Meta(store, r.trails)
         c1 == [c EXCEPT !.results = Adopt(c.results, r.trails), !.wide = r.trails,
                         !.issued = Append(@, LAZY_SCRAPE_RADIUS_MILES),
                         !.queries = @ + (IF r.queried THEN 1 ELSE 0),
                         !.meta = m, !.enriched = m]
     IN  AfterQuery(p, c1)
  /\ UNCHANGED <<store, ranking, scraping_locations, scraped_locations, task,
                 ncalls, finished, probe, config, upserted, validated, handle>>

\* Lines 123-143: one fetch_fresh_trail_info per result, each ending in its own
\* way; the loop writes what came back into the result dicts.
Enrich(p, fetches) ==
  /\ call[p].pc = "enrich"
  /\ \E o \in [1..Len(call[p].results) -> fetches] :
       LET c  == call[p]
           c1 == [c EXCEPT !.enriched = [i \in 1..Len(c.results) |->
                                           EnrichOne(c.enriched[i], o[i])],
                           !.fetched = o]
       IN  AfterSearch(p, c1)
  /\ UNCHANGED <<store, ranking, scraping_locations, scraped_locations, task,
                 ncalls, finished, probe, config, upserted, validated, handle>>

\* Lines 167-187: read the scrape state under the lock, then decide on it.
ReadState(p) ==
  /\ call[p].pc = "state"
  /\ LET c   == call[p]
         key == SearchKey(c.location)
         c1  == [c EXCEPT
                   !.already_scraped = already_scraped(key, scraped_locations, c.rescrape),
                   !.in_progress = in_progress(key, scraping_locations)]
     IN  IF c1.results = <<>> /\ c1.already_scraped
         THEN Return(p, c1, "_already_scraped", <<>>)
         ELSE IF c1.results = <<>> /\ c1.in_progress
         THEN Return(p, c1, "_fetching", <<>>)
         ELSE IF (Len(c1.results) < FEW_RESULTS /\ c1.already_scraped /\ ~c1.rescrape)
                 \/ c1.in_progress
         THEN ReturnAfterEvaluation(p, c1)
         ELSE LET waiting == {q \in Callers \ {p} :
                                 /\ call[q].pc = "launch"
                                 /\ SearchKey(call[q].location) = key}
              IN  /\ call' = [q \in Callers |->
                                IF q = p
                                THEN [c1 EXCEPT !.pc = "launch", !.eligible = TRUE,
                                                !.rivals = {call[v].id : v \in waiting}]
                                ELSE IF q \in waiting
                                THEN [call[q] EXCEPT !.rivals = @ \cup {c.id}]
                                ELSE call[q]]
                  /\ UNCHANGED resp
  /\ UNCHANGED <<store, ranking, scraping_locations, scraped_locations, task,
                 ncalls, finished, probe, config, upserted, validated, handle>>

\* Line 189, under the lock: a thread may be started for the key.
\* Faulty variant of MayLaunch: the in-progress set is not looked at again.
MayLaunchUnchecked(loc_key, scraping) == TRUE

\* Line 189, under the lock.
MayLaunch(loc_key, scraping) == loc_key \notin scraping

\* Faulty variant of NewThread: the thread is not started.
NewThreadNotStarted(location, loc_key) == FreeTask

\* A thread started on _run_scrape for a location.
NewThread(location, loc_key) ==
  [FreeTask EXCEPT !.pc = "geocode", !.location = location,
                   !.radius = PyFloat(LAZY_SCRAPE_RADIUS_MILES), !.loc_key = loc_key]

\* Lines 188-212: under the lock, mark the key in progress and start the thread
\* unless one is running; then return.
Launch(p) ==
  /\ call[p].pc = "launch"
  /\ LET c   == call[p]
         key == SearchKey(c.location)
     IN  IF MayLaunch(key, scraping_locations)
         THEN /\ \E w \in Threads : task[w].pc = "free"
              /\ task' = [task EXCEPT
                            ![CHOOSE w \in Threads : task[w].pc = "free"] =
                               NewThread(c.location, key)]
              /\ scraping_locations' = scraping_locations \cup {key}
              /\ ReturnAfterEvaluation(p, [c EXCEPT !.launched = TRUE,
                                                     !.stale = key \in scraped_locations])
         ELSE /\ UNCHANGED <<task, scraping_locations>>
              /\ ReturnAfterEvaluation(p, c)
  /\ UNCHANGED <<store, ranking, scraped_locations, ncalls, finished, probe, config, upserted, validated, handle>>

----------------------------------------------------------------------------
(* lazy_scrape_and_load, run by a background thread or by scrape_region *)

\* Faulty variant of Returned: the thread ends at the return, its key still marked
\* in progress.
ReturnedNoFinally(w, t) == [t EXCEPT !.pc = "ended", !.outcome = "ok"]

\* lazy_scrape_and_load returned (lines 45, 64, 69): the thread goes on to line
\* 196, scrape_region returns its dict.
Returned(w, t) ==
  IF w \in Threads THEN [t EXCEPT !.pc = "mark"]
  ELSE [FreeTask EXCEPT !.outcome = "ok"]

\* Faulty variant of Raised: the thread dies on the exception without a finally block.
RaisedNoFinally(w, t) == [FreeTask EXCEPT !.outcome = "raised"]

\* lazy_scrape_and_load raised: the thread's except and finally run,
\* scrape_region returns its error dict.
Raised(w, t) ==
  IF w \in Threads THEN [t EXCEPT !.pc = "finally", !.outcome = "raised"]
  ELSE [FreeTask EXCEPT !.outcome = "error"]

\* Lines 62-65 after the scrape loop: nothing scraped returns 0, else the key is
\* recorded next.
AfterLoop(w, t) ==
  IF t.i <= Len(t.slugs) THEN t
  ELSE IF t.ntrails = 0 THEN Returned(w, t)
  ELSE [t EXCEPT !.pc = "record"]

\* Lines 41-47, and the slug listing the scraper starts with.
LoadGeocode(w) ==
  /\ task[w].pc = "geocode"
  /\ \E g \in GeocodeOutcomes(task[w].location) :
       CASE g.kind = "ok" ->
              \E sl \in SlugLists :
                task' = [task EXCEPT ![w] =
                           AfterLoop(w, [@ EXCEPT !.pc = "scrape", !.lat = g.lat,
                                                  !.lon = g.lon, !.slugs = sl, !.i = 1,
                                                  !.geocoded = g.kind])]
         [] g.kind \in {"empty", "nolat"} ->
              task' = [task EXCEPT ![w] = Returned(w, [@ EXCEPT !.geocoded = g.kind])]
         [] g.kind = "raise" ->
              task' = [task EXCEPT ![w] = Raised(w, [@ EXCEPT !.geocoded = g.kind])]
  /\ UNCHANGED <<store, ranking, scraping_locations, scraped_locations, call, resp,
                 ncalls, finished, probe, config, upserted, validated, handle>>

\* scraper.py lines 576-579: a scraped trail beyond the radius is skipped.
TooFar(center_lat, center_lon, slug, radius_miles) ==
  haversine_miles(center_lat, center_lon, TrailLat(slug), TrailLon(slug))
    > radius_miles * 100

\* Faulty variant of add_trails: the trails are counted but not written to the
\* collection.
AddTrailsNotPersisted(st, trails) == [store |-> st, n |-> Len(trails)]

\* Faulty variant of upsert: an id that holds a record keeps it (collection.add).
RECURSIVE UpsertKeepsExisting(_, _, _)
UpsertKeepsExisting(st, trails, i) ==
  IF i > Len(trails) THEN st
  ELSE UpsertKeepsExisting(
         IF st[trails[i].slug].present THEN st
         ELSE [st EXCEPT ![trails[i].slug] = trail_to_metadata(trails[i])],
         trails, i + 1)

\* collection.upsert(ids, documents, metadatas): each id gets the given record,
\* whether or not it held one.
RECURSIVE upsert(_, _, _)
upsert(st, trails, i) ==
  IF i > Len(trails) THEN st
  ELSE upsert([st EXCEPT ![trails[i].slug] = trail_to_metadata(trails[i])],
              trails, i + 1)

\* WTAVectorStore.add_trails(trails): nothing for an empty list, else one upsert
\* keyed by slug; the collection after it and the number returned.
add_trails(st, trails) ==
  IF trails = <<>> THEN [store |-> st, n |-> 0]
  ELSE [store |-> upsert(st, trails, 1), n |-> Len(trails)]

\* What the request for a trail page can meet: no answer, a page without a
\* coordinate whose geocode fallback finds none either, a page with its
\* coordinate.
PageKinds == {"unreachable", "nocoord", "located"}

\* scrape_trail_detail returned None.
NoTrail ==
  [slug |-> "", lat |-> None, lon |-> None, alerts |-> <<>>, trip_reports |-> <<>>,
   content |-> 0]

\* Faulty variant of scrape_trail_detail: a page without a coordinate yields a
\* trail without location.
ScrapeDetailKeepsUnlocated(slug, page) ==
  CASE page = "located" -> WTATrail(slug, 1)
    [] page = "nocoord" -> [WTATrail(slug, 1) EXCEPT !.lat = None, !.lon = None]
    [] OTHER -> NoTrail

\* scrape_trail_detail(slug): the trail of the page, None when the page cannot be
\* fetched or no coordinate is found for it.
scrape_trail_detail(slug, page) ==
  IF page = "located" THEN WTATrail(slug, 1) ELSE NoTrail

\* Lines 569-579 of scraper.py: the trail is passed to on_trail and kept, unless
\* it is None or has a location beyond the radius.
KeepsTrail(trail, center_lat, center_lon, radius_miles) ==
  /\ trail # NoTrail /\ trail.slug # ""
  /\ (trail.lat # None => ~TooFar(center_lat, center_lon, trail.slug, radius_miles))

\* One turn of the scrape loop (scraper.py lines 568-584) with the on_trail
\* callback of lines 51-53: the detail page yields no trail, or a trail that is
\* skipped or upserted at once, or the upsert raises.
LoadScrape(w) ==
  /\ task[w].pc = "scrape"
  /\ LET t    == task[w]
         slug == t.slugs[t.i]
     IN  \E page \in PageKinds, upsert_raises \in BOOLEAN :
           LET trail == scrape_trail_detail(slug, page)
               keeps == KeepsTrail(trail, t.lat, t.lon, t.radius.v)
           IN  CASE ~keeps ->
                      /\ ~upsert_raises
                      /\ task' = [task EXCEPT ![w] =
                                    AfterLoop(w, [t EXCEPT !.i = @ + 1])]
                      /\ UNCHANGED store
                 [] keeps /\ ~upsert_raises ->
                      /\ store' = add_trails(store, <<trail>>).store
                      /\ task' = [task EXCEPT ![w] =
                                    AfterLoop(w, [t EXCEPT !.i = @ + 1,
                                                           !.ntrails = @ + 1,
                                                           !.added = @ \cup {slug}])]
                 [] keeps /\ upsert_raises ->
                      /\ task' = [task EXCEPT ![w] = Raised(w, t)]
                      /\ UNCHANGED store
  /\ UNCHANGED <<ranking, scraping_locations, scraped_locations, call, resp,
                 ncalls, finished, probe, config, upserted, validated, handle>>

\* Lines 65-69: record the key as scraped, under the lock, and return.
LoadRecord(w) ==
  /\ task[w].pc = "record"
  /\ scraped_locations' =
       scraped_locations \cup {LocKey(Normalize(task[w].location), task[w].radius)}
  /\ task' = [task EXCEPT ![w] = Returned(w, @)]
  /\ UNCHANGED <<store, ranking, scraping_locations, call, resp, ncalls, finished, probe, config, upserted, validated, handle>>

\* _run_scrape lines 196-197: the thread records its key as scraped.
RunScrapeMark(w) ==
  /\ w \in Threads
  /\ task[w].pc = "mark"
  /\ scraped_locations' = scraped_locations \cup {task[w].loc_key}
  /\ task' = [task EXCEPT ![w] = [@ EXCEPT !.pc = "finally", !.outcome = "ok"]]
  /\ UNCHANGED <<store, ranking, scraping_locations, call, resp, ncalls, finished, probe, config, upserted, validated, handle>>

\* _run_scrape lines 201-203: the finally block releases the key; the thread ends.
RunScrapeFinally(w) ==
  /\ w \in Threads
  /\ task[w].pc = "finally"
  /\ scraping_locations' = scraping_locations \ {task[w].loc_key}
  /\ finished' = IF task[w].outcome = "ok" THEN finished \cup {task[w].loc_key}
                 ELSE finished
  /\ task' = [task EXCEPT ![w] = FreeTask]
  /\ UNCHANGED <<store, ranking, scraped_locations, call, resp, ncalls, probe, config, upserted, validated, handle>>

\* scrape_region lines 232-237: a forced rescrape discards the key, then the
\* load starts.
ScrapeRegion(location, radius_miles, rescrape) ==
  /\ task[Region].pc = "free"
  /\ ncalls.region < MaxRegionCalls
  /\ ncalls' = [ncalls EXCEPT !.region = @ + 1]
  /\ scraped_locations' =
       IF rescrape
       THEN scraped_locations \ {LocKey(Normalize(location), radius_miles)}
       ELSE scraped_locations
  /\ task' = [task EXCEPT ![Region] =
                [FreeTask EXCEPT !.pc = "geocode", !.location = location,
                                 !.radius = radius_miles, !.rescrape = rescrape]]
  /\ call' = [q \in Callers |->
                IF rescrape /\ Active(q) /\ call[q].location # NoLocation
                   /\ SearchKey(call[q].location)
                        = LocKey(Normalize(location), radius_miles)
                THEN [call[q] EXCEPT !.kept = FALSE]
                ELSE call[q]]
  /\ UNCHANGED <<store, ranking, scraping_locations, resp, finished, probe, config, upserted, validated, handle>>

----------------------------------------------------------------------------
(* The system *)

\* The arguments the callers of the model pass to search_trails.
ArgSets ==
  [query : {QLake, QRoy}, n_results : {2, 3},
   location : {NoLocation, Roy, WA, CedarFalls, Equator},
   radius_miles : {None, 5}, lazy_scrape : BOOLEAN, rescrape : BOOLEAN]

\* The arguments of the concurrent callers: one key, reached by two spellings.
ConcArgSets ==
  [query : {QLake}, n_results : {3},
   location : {Roy, RoyPadded},
   radius_miles : {None}, lazy_scrape : {TRUE}, rescrape : BOOLEAN]

RegionArgs ==
  [location : {Roy}, radius_miles : {PyInt(50), PyFloat(50)}, rescrape : BOOLEAN]

\* The steps of a search_trails call, for the arguments its caller may pass and
\* the ways the fresh-info fetches of its enrichment may end.
CallerStep(p, args, fetches) ==
  \/ \E a \in args : Call(p, a)
  \/ Geocode(p)
  \/ Search1(p)
  \/ Search2(p)
  \/ Enrich(p, fetches)
  \/ ReadState(p)
  \/ Launch(p)

WorkerStep(w) ==
  \/ LoadGeocode(w)
  \/ LoadScrape(w)
  \/ LoadRecord(w)
  \/ RunScrapeMark(w)
  \/ RunScrapeFinally(w)

RegionStep ==
  \E a \in RegionArgs : ScrapeRegion(a.location, a.radius_miles, a.rescrape)

\* The trail pages answer every fresh-info fetch.
SiteUp == {"fresh"}

\* One client calling search_trails with every argument of the model, and the
\* background threads it starts.
Next ==
  \/ CallerStep("c1", ArgSets, SiteUp)
  \/ \E w \in Threads : WorkerStep(w)

Spec == Init /\ [][Next]_vars

\* Two clients calling search_trails concurrently for one key.
NextConc ==
  \/ \E p \in Callers : CallerStep(p, ConcArgSets, SiteUp)
  \/ \E w \in Threads : WorkerStep(w)

SpecConc == Init /\ [][NextConc]_vars

\* One client calling search_trails for one key, and the threads it starts.
NextLive ==
  \/ CallerStep("c1", ConcArgSets, SiteUp)
  \/ \E w \in Threads : WorkerStep(w)

\* Every started thread runs on: a thread that can take a step eventually takes
\* one (the scraper and the geocoder return, the lock is free again after each
\* block).
SpecFair == Init /\ [][NextLive]_vars /\ \A w \in Threads : WF_vars(WorkerStep(w))

\* The arguments of the client that runs beside scrape_region.
RegionCallerArgSets ==
  [query : {QLake, QRoy}, n_results : {3},
   location : {Roy},
   radius_miles : {None}, lazy_scrape : BOOLEAN, rescrape : BOOLEAN]

\* One client calling search_trails while scrape_region runs.
NextRegion ==
  \/ CallerStep("c1", RegionCallerArgSets, SiteUp)
  \/ \E w \in Workers : WorkerStep(w)
  \/ RegionStep

SpecRegion == Init /\ [][NextRegion]_vars

\* The arguments of the client whose enrichment fetches may fail.
EnrichArgSets ==
  [query : {QLake}, n_results : {2, 3},
   location : {NoLocation, Roy},
   radius_miles : {None}, lazy_scrape : BOOLEAN, rescrape : {FALSE}]

\* A run under either setting of WTA_ENABLE_FRESH_RAG.
InitEnrich ==
  /\ store \in InitialStores
  /\ ranking \in Rankings
  /\ scraping_locations = {}
  /\ scraped_locations = {}
  /\ call = [p \in Callers |-> IdleCall]
  /\ resp = [p \in Callers |-> NoResp]
  /\ task = [w \in Workers |-> FreeTask]
  /\ ncalls = [search |-> 0, region |-> 0]
  /\ finished = {}
  /\ probe = NoProbe
  /\ config \in Configs
  /\ upserted = NoUpsert
  /\ validated = NoValidation
  /\ handle = NoHandle

\* One client calling search_trails while the trail pages may fail to answer.
NextEnrich ==
  \/ CallerStep("c1", EnrichArgSets, FetchOutcomes)
  \/ \E w \in Threads : WorkerStep(w)

SpecEnrich == InitEnrich /\ [][NextEnrich]_vars

----------------------------------------------------------------------------
(* WTAVectorStore.search called directly *)

\* Largest n_results of a direct search.
MaxLimit == 2

\* Collections of a direct search: each trail absent, stored with its coordinate
\* or stored without one (records loaded before coordinates were required).
ProbeStores ==
  [Slugs -> {"absent", "located", "unlocated"}]

ProbeStore(kinds) ==
  [s \in Slugs |->
     CASE kinds[s] = "absent"    -> Absent
       [] kinds[s] = "located"   -> Stored(TrailLat(s), TrailLon(s))
       [] kinds[s] = "unlocated" -> Stored(None, None)]

\* Relevance orders a query text can give the collection.
ProbeRanks ==
  { <<"s1","s2","s3","s4","s5">>, <<"s5","s4","s3","s2","s1">>,
    <<"s4","s1","s5","s2","s3">>, <<"s3","s5","s2","s4","s1">> }

\* Centres of a direct search: none, (47.5, -121.8), and points whose latitude
\* or longitude is 0.
ProbeCenters ==
  { <<None, None>>, <<475, 0 - 1218>>, <<0, 0 - 1218>>, <<485, 0>> }

ProbeRadii == {None, 0, DEFAULT_RADIUS_MILES, LAZY_SCRAPE_RADIUS_MILES}

InitSearch ==
  /\ \E kinds \in ProbeStores : store = ProbeStore(kinds)
  /\ ranking \in Rankings
  /\ scraping_locations = {}
  /\ scraped_locations = {}
  /\ call = [p \in Callers |-> IdleCall]
  /\ resp = [p \in Callers |-> NoResp]
  /\ task = [w \in Workers |-> FreeTask]
  /\ ncalls = [search |-> 0, region |-> 0]
  /\ finished = {}
  /\ \E n \in 1..MaxLimit, c \in ProbeCenters, r \in ProbeRadii, rk \in ProbeRanks :
       probe = [NoProbe EXCEPT !.n_results = n, !.center_lat = c[1],
                               !.center_lon = c[2], !.radius_miles = r, !.rank = rk]
  /\ config = DefaultConfig
  /\ upserted = NoUpsert
  /\ validated = NoValidation
  /\ handle = NoHandle

\* store.search(query, n_results, center_lat, center_lon, radius_miles)
Probe ==
  /\ ~probe.done
  /\ LET r == search(store, probe.rank, probe.n_results, probe.center_lat,
                     probe.center_lon, probe.radius_miles)
     IN  probe' = [probe EXCEPT !.done = TRUE, !.out = r.trails,
                                !.queried = r.queried, !.fetch_n = r.fetch_n]
  /\ UNCHANGED <<store, ranking, scraping_locations, scraped_locations, call, resp,
                 task, ncalls, finished, config, upserted, validated, handle>>

NextSearch == Probe

SpecSearch == InitSearch /\ [][NextSearch]_vars

----------------------------------------------------------------------------
(* WTAVectorStore.add_trails called directly *)

\* Direct add_trails calls in one run.
MaxUpserts == 3

\* The trails of the direct calls: two revisions of the pages of two trails.
UpsertTrails == {WTATrail(slug, content) : slug \in {"s1", "s4"}, content \in {1, 2}}

\* The lists passed to add_trails: empty, one trail, or two trails of different
\* slugs.
UpsertBatches ==
  {<<>>} \cup {<<t>> : t \in UpsertTrails}
         \cup {b \in {<<t, u>> : t \in UpsertTrails, u \in UpsertTrails} :
                 b[1].slug # b[2].slug}

InitUpsert ==
  /\ store \in InitialStores
  /\ ranking \in Rankings
  /\ scraping_locations = {}
  /\ scraped_locations = {}
  /\ call = [p \in Callers |-> IdleCall]
  /\ resp = [p \in Callers |-> NoResp]
  /\ task = [w \in Workers |-> FreeTask]
  /\ ncalls = [search |-> 0, region |-> 0]
  /\ finished = {}
  /\ probe = NoProbe
  /\ config = DefaultConfig
  /\ upserted = NoUpsert
  /\ validated = NoValidation
  /\ handle = NoHandle

\* store.add_trails(trails)
AddTrails(trails) ==
  /\ upserted.calls < MaxUpserts
  /\ LET r == add_trails(store, trails)
     IN  /\ store' = r.store
         /\ upserted' = [calls |-> upserted.calls + 1, trails |-> trails,
                         before |-> store, n |-> r.n]
  /\ UNCHANGED <<ranking, scraping_locations, scraped_locations, call, resp, task,
                 ncalls, finished, probe, config, validated, handle>>

NextUpsert == \E trails \in UpsertBatches : AddTrails(trails)

SpecUpsert == InitUpsert /\ [][NextUpsert]_vars

----------------------------------------------------------------------------
(* alltrails.validate.validate_alltrails_link *)

\* A URL is a sequence of tokens: blanks, a scheme, "://", host labels, "/" and
\* path segments, "?" and the names, "=", values and "&" of a query string.

\* The index of the first token of s that is in the set, or Len(s) + 1.
First(s, set) ==
  LET hits == {i \in 1..Len(s) : s[i] \in set}
  IN  IF hits = {} THEN Len(s) + 1
      ELSE CHOOSE i \in hits : \A j \in hits : i <= j

\* str.lower() token by token.
LowerToken(t) ==
  CASE t = "HTTPS" -> "https" [] t = "B_BR_LAT" -> "b_br_lat" [] OTHER -> t

LowerTokens(s) == [i \in 1..Len(s) |-> LowerToken(s[i])]

\* urlparse(url): scheme, netloc, path and query of the URL.
urlparse(url) ==
  LET sep    == First(url, {"://"})
      rest   == IF sep > Len(url) THEN url ELSE SubSeq(url, sep + 1, Len(url))
      endnet == IF sep > Len(url) THEN 1 ELSE First(rest, {"/", "?", "#"})
      tail   == SubSeq(rest, endnet, Len(rest))
      endpth == First(tail, {"?", "#"})
      after  == SubSeq(tail, endpth, Len(tail))
      query  == IF after # <<>> /\ after[1] = "?"
                THEN SubSeq(after, 2, First(after, {"#"}) - 1)
                ELSE <<>>
  IN  [scheme |-> IF sep > Len(url) THEN <<>> ELSE SubSeq(url, 1, sep - 1),
       netloc |-> SubSeq(rest, 1, endnet - 1),
       path   |-> SubSeq(tail, 1, endpth - 1),
       query  |-> query]

\* path.rstrip("/") or "/"
RECURSIVE rstrip_slash(_)
rstrip_slash(path) ==
  IF path # <<>> /\ path[Len(path)] = "/" THEN rstrip_slash(SubSeq(path, 1, Len(path) - 1))
  ELSE path

PathOrRoot(path) == IF rstrip_slash(path) = <<>> THEN <<"/">> ELSE rstrip_slash(path)

\* netloc.lower().replace("www.", "").strip()
Host(netloc) == strip(SelectSeq(LowerTokens(netloc), LAMBDA t : t # "www."))

\* The path segments that put a URL in a restricted area.
BLOCKED == {"api", "members", "register"}

\* Two-letter country codes of the model's paths.
Countries == {"us", "ca"}

\* REGION_PATH_PATTERN.match(path): optional explore/, parks/, poi/, then a
\* country code and at least one more segment.
RECURSIVE DropPrefix(_, _)
DropPrefix(path, names) ==
  IF names = <<>> THEN path
  ELSE IF Len(path) >= 3 /\ path[1] = "/" /\ path[2] = names[1] /\ path[3] = "/"
       THEN DropPrefix(SubSeq(path, 3, Len(path)), Tail(names))
       ELSE DropPrefix(path, Tail(names))

REGION_PATH_PATTERN(path) ==
  LET p == DropPrefix(path, <<"explore", "parks", "poi">>)
  IN  /\ Len(p) >= 4
      /\ p[1] = "/" /\ p[2] \in Countries /\ p[3] = "/"
      /\ p[4] \notin {"/", "?", "#", "="}

\* EXPLORE_MAP_PATTERN.match(path): the path is /explore.
EXPLORE_MAP_PATTERN(path) == path = <<"/", "explore">>

\* The query-string names of a bounding box.
BoundingBoxNames == {"b_br_lat", "b_tl_lat", "b_br_lng", "b_tl_lng"}

\* `name in q` for each bounding-box name: the name occurs somewhere in the
\* lower-cased query string.
MentionsBoundingBox(query) ==
  \E i \in 1..Len(query) : LowerToken(query[i]) \in BoundingBoxNames

\* validate_alltrails_link(url)
validate_alltrails_link(url) ==
  IF url = <<>>
  THEN [valid |-> FALSE, reason |-> "required", url |-> <<>>]
  ELSE
    LET u      == strip(url)
        parsed == urlparse(u)
        path   == PathOrRoot(parsed.path)
    IN  IF LowerTokens(parsed.scheme) # <<"https">>
        THEN [valid |-> FALSE, reason |-> "https", url |-> u]
        ELSE IF Host(parsed.netloc) # <<"alltrails.com">>
        THEN [valid |-> FALSE, reason |-> "domain", url |-> u]
        ELSE IF \E i \in 1..Len(path) : LowerToken(path[i]) \in BLOCKED
        THEN [valid |-> FALSE, reason |-> "restricted", url |-> u]
        ELSE IF REGION_PATH_PATTERN(path)
        THEN [valid |-> TRUE, reason |-> "region", url |-> u]
        ELSE IF EXPLORE_MAP_PATTERN(path) /\ MentionsBoundingBox(parsed.query)
        THEN [valid |-> TRUE, reason |-> "explore", url |-> u]
        ELSE [valid |-> FALSE, reason |-> "pattern", url |-> u]

\* The URLs of the model.
UrlPads == {<<>>, <<" ">>}

UrlSchemes == {<<"https", "://">>, <<"HTTPS", "://">>, <<"http", "://">>, <<>>}

UrlHosts == {<<"alltrails.com">>, <<"www.", "alltrails.com">>, <<"evil.com">>}

UrlPaths ==
  { <<>>, <<"/">>, <<"/", "explore">>, <<"/", "explore", "/">>,
    <<"/", "explore", "/", "us", "/", "washington">>,
    <<"/", "us", "/", "washington", "/", "north-bend">>,
    <<"/", "api", "/", "explore">> }

UrlQueries ==
  { <<>>,
    <<"?", "b_br_lat", "=", "1", "&", "b_tl_lat", "=", "2">>,
    <<"?", "a[]", "=", "rock-climbing", "&", "b_tl_lng", "=", "2">>,
    <<"?", "B_BR_LAT", "=", "1">>,
    <<"?", "a[]", "=", "rock-climbing">>,
    <<"?", "q", "=", "b_br_lat">>,
    <<"#", "b_br_lat", "=", "1">> }

Urls ==
  {<<>>} \cup {pad \o sch \o host \o path \o query :
                 pad \in UrlPads, sch \in UrlSchemes, host \in UrlHosts,
                 path \in UrlPaths, query \in UrlQueries}

InitValidate ==
  /\ store \in InitialStores
  /\ ranking \in Rankings
  /\ scraping_locations = {}
  /\ scraped_locations = {}
  /\ call = [p \in Callers |-> IdleCall]
  /\ resp = [p \in Callers |-> NoResp]
  /\ task = [w \in Workers |-> FreeTask]
  /\ ncalls = [search |-> 0, region |-> 0]
  /\ finished = {}
  /\ probe = NoProbe
  /\ config = DefaultConfig
  /\ upserted = NoUpsert
  /\ \E url \in Urls : validated = [NoValidation EXCEPT !.input = url]
  /\ handle = NoHandle

\* validate_alltrails_link(url)
Validate ==
  /\ ~validated.done
  /\ validated' = [validated EXCEPT !.done = TRUE,
                                    !.out = validate_alltrails_link(validated.input)]
  /\ UNCHANGED <<store, ranking, scraping_locations, scraped_locations, call, resp,
                 task, ncalls, finished, probe, config, upserted, handle>>

NextValidate == Validate

SpecValidate == InitValidate /\ [][NextValidate]_vars

----------------------------------------------------------------------------
(* get_store *)

\* A caller or a scrape thread enters get_store.
GetStoreEnter(g) ==
  /\ handle.pc[g] = "out"
  /\ handle' = [handle EXCEPT !.pc[g] = "test"]
  /\ UNCHANGED <<store, ranking, scraping_locations, scraped_locations, call, resp,
                 task, ncalls, finished, probe, config, upserted, validated>>

\* `if _store is None:` (line 34), read without any lock.
GetStoreTest(g) ==
  /\ handle.pc[g] = "test"
  /\ handle' = [handle EXCEPT !.pc[g] = IF handle.store = None THEN "construct"
                                                               ELSE "return"]
  /\ UNCHANGED <<store, ranking, scraping_locations, scraped_locations, call, resp,
                 task, ncalls, finished, probe, config, upserted, validated>>

\* `WTAVectorStore()` (right-hand side of line 35): opens the Chroma client and
\* the collection, numbered here in order of construction.
GetStoreConstruct(g) ==
  /\ handle.pc[g] = "construct"
  /\ handle' = [handle EXCEPT !.built = @ + 1, !.made[g] = handle.built + 1,
                              !.pc[g] = "assign"]
  /\ UNCHANGED <<store, ranking, scraping_locations, scraped_locations, call, resp,
                 task, ncalls, finished, probe, config, upserted, validated>>

\* `_store = ...` (line 35).
GetStoreAssign(g) ==
  /\ handle.pc[g] = "assign"
  /\ handle' = [handle EXCEPT !.store = handle.made[g], !.pc[g] = "return"]
  /\ UNCHANGED <<store, ranking, scraping_locations, scraped_locations, call, resp,
                 task, ncalls, finished, probe, config, upserted, validated>>

\* `return _store` (line 36).
GetStoreReturn(g) ==
  /\ handle.pc[g] = "return"
  /\ handle' = [handle EXCEPT !.got[g] = handle.store, !.pc[g] = "back"]
  /\ UNCHANGED <<store, ranking, scraping_locations, scraped_locations, call, resp,
                 task, ncalls, finished, probe, config, upserted, validated>>

NextStore ==
  \E g \in Getters :
    \/ GetStoreEnter(g)
    \/ GetStoreTest(g)
    \/ GetStoreConstruct(g)
    \/ GetStoreAssign(g)
    \/ GetStoreReturn(g)

SpecStore == Init /\ [][NextStore]_vars

----------------------------------------------------------------------------
(* Claims *)

Done(p) == call[p].pc = "done"

\* The call of p geocoded its location to a coordinate and searched.
Searched(p) == call[p].geocoded = "ok" /\ call[p].issued # <<>>

\* The calls of p and q were at one time both past the reading of the scrape
\* state, eligible to launch, and before the launch.
EligibleTogether(p, q) == call[q].id \in call[p].rivals /\ call[p].id \in call[q].rivals

\* C1: of two concurrent search_trails calls without forced rescrape that are
\* eligible at the same time to launch a scrape for the same key (both have read
\* the key as neither scraped nor in progress), exactly one launches the
\* background scrape.
C1_ExactlyOneLaunch ==
  \A p, q \in Callers :
    ( /\ p # q
      /\ Done(p) /\ Done(q)
      /\ EligibleTogether(p, q)
      /\ call[p].eligible /\ call[q].eligible
      /\ ~call[p].rescrape /\ ~call[q].rescrape
      /\ SearchKey(call[p].location) = SearchKey(call[q].location) )
    => (call[p].launched # call[q].launched)

\* C2: no key is in the in-progress set and in the completed set at once.
C2_SetsDisjoint == scraping_locations \cap scraped_locations = {}

\* C3 as stated: once a background scrape has completed and its key is in the
\* completed set, a later call for the location without forced rescrape that finds
\* no result returns the already_scraped advisory and launches no scrape.
C3_AlreadyScrapedAlways ==
  \A p \in Callers :
    ( /\ Done(p) /\ Searched(p)
      /\ call[p].kept
      /\ ~call[p].rescrape
      /\ call[p].results = <<>> )
    => (resp[p].advisory = "_already_scraped" /\ ~call[p].launched)

\* C3 amended: the same, for calls with lazy scrape enabled whose query text is not
\* the location itself.
C3_AlreadyScraped ==
  \A p \in Callers :
    ( /\ Done(p) /\ Searched(p)
      /\ call[p].kept
      /\ ~call[p].rescrape
      /\ call[p].results = <<>>
      /\ call[p].lazy_scrape
      /\ Normalize(call[p].query) # Normalize(call[p].location) )
    => (resp[p].advisory = "_already_scraped" /\ resp[p].trails = <<>>
        /\ ~call[p].launched)

C3_Witness ==
  \E p \in Callers :
    /\ Done(p) /\ Searched(p) /\ call[p].kept /\ ~call[p].rescrape
    /\ call[p].results = <<>> /\ call[p].lazy_scrape
    /\ Normalize(call[p].query) # Normalize(call[p].location)
    /\ resp[p].advisory = "_already_scraped"

\* C4: a call whose location did not geocode (empty answer, no latitude, or an
\* exception) returns the geocode_failed advisory alone and never searches the
\* store.
C4_GeocodeFailed ==
  \A p \in Callers :
    call[p].geocoded \in {"empty", "nolat", "raise"}
    => /\ call[p].issued = <<>> /\ call[p].queries = 0
       /\ Done(p)
       /\ resp[p] = [advisory |-> "_geocode_failed", trails |-> <<>>]
       /\ ~call[p].launched

C4_Witness ==
  /\ \E p \in Callers : Done(p) /\ call[p].geocoded = "raise"
  /\ \E s \in Slugs : store[s].present

\* C5 as stated: a geocoded location on the deny-list always gets the skip_scrape
\* advisory and launches no scrape.
C5_DenyListAlwaysSkips ==
  \A p \in Callers :
    ( /\ Done(p) /\ Searched(p)
      /\ Normalize(call[p].location) \in LAZY_SCRAPE_SKIP_LOCATIONS )
    => (resp[p].advisory = "_skip_scrape" /\ ~call[p].launched)

\* C5 amended: a geocoded location on the deny-list never launches a scrape; it
\* gets the skip_scrape advisory when lazy scrape is enabled and fewer than 3
\* results were found, and the results otherwise.
C5_DenyList ==
  \A p \in Callers :
    ( /\ Done(p) /\ Searched(p)
      /\ Normalize(call[p].location) \in LAZY_SCRAPE_SKIP_LOCATIONS )
    => /\ ~call[p].launched /\ ~call[p].eligible
       /\ IF call[p].lazy_scrape /\ Len(call[p].results) < FEW_RESULTS
          THEN resp[p] = [advisory |-> "_skip_scrape", trails |-> <<>>]
          ELSE resp[p] = [advisory |-> "none", trails |-> call[p].results]

C5_Witness ==
  \E p \in Callers :
    /\ Done(p) /\ Searched(p)
    /\ Normalize(call[p].location) \in LAZY_SCRAPE_SKIP_LOCATIONS
    /\ call[p].location \notin LAZY_SCRAPE_SKIP_LOCATIONS
    /\ resp[p].advisory = "_skip_scrape"

\* C6: a call with a geocoded location and lazy scrape enabled whose result set
\* is empty never returns an empty list: it returns one advisory, fetching,
\* already_scraped or skip_scrape.
C6_NoEmptySuccess ==
  \A p \in Callers :
    ( /\ Done(p) /\ Searched(p)
      /\ call[p].lazy_scrape
      /\ call[p].results = <<>> )
    => /\ resp[p].advisory \in {"_fetching", "_already_scraped", "_skip_scrape"}
       /\ resp[p].trails = <<>>

C6_Witness ==
  \E p \in Callers :
    /\ Done(p) /\ Searched(p) /\ call[p].lazy_scrape /\ call[p].results = <<>>
    /\ resp[p].advisory = "_fetching" /\ ~call[p].launched

\* The lazy-scrape evaluation of lines 150-215 ran in the call of p.
Evaluated(p) ==
  should_scrape(call[p].results, call[p].location, call[p].lazy_scrape,
                call[p].center_lat)

\* C7 as stated: a call that evaluates a lazy scrape with 1 or 2 results returns
\* those results, not an advisory.
C7_FewResultsAlwaysReturned ==
  \A p \in Callers :
    ( /\ Done(p) /\ Searched(p) /\ Evaluated(p)
      /\ Len(call[p].results) \in {1, 2} )
    => resp[p] = [advisory |-> "none", trails |-> call[p].results]

\* C7 amended: the same, unless the location is on the deny-list or holds a
\* feature word (then the skip_scrape advisory is returned instead).
C7_FewResultsReturned ==
  \A p \in Callers :
    ( /\ Done(p) /\ Searched(p) /\ Evaluated(p)
      /\ Len(call[p].results) \in {1, 2}
      /\ Normalize(call[p].location) \notin LAZY_SCRAPE_SKIP_LOCATIONS
      /\ \A w \in FEATURE_WORDS : ~contains(Normalize(call[p].location), w) )
    => resp[p] = [advisory |-> "none", trails |-> call[p].results]

C7_Witness ==
  /\ \E p \in Callers :
       /\ Done(p) /\ Evaluated(p) /\ Len(call[p].results) = 2 /\ call[p].launched
       /\ resp[p] = [advisory |-> "none", trails |-> call[p].results]
  /\ \E w \in Threads : task[w].pc # "free"

\* The keys a search_trails call of the model can track.
SearchKeys == {SearchKey(l) : l \in {Roy, RoyPadded, WA, CedarFalls, Equator}}

\* C8: a key in the in-progress set is eventually removed from it, however the
\* background task ends.
C8_EventuallyReleased ==
  \A k \in SearchKeys :
    (k \in scraping_locations) ~> (k \notin scraping_locations)

C8_Witness ==
  \E w \in Threads :
    /\ task[w].pc = "finally" /\ task[w].outcome = "raised"
    /\ task[w].loc_key \in scraping_locations

\* The candidates that pass the distance filter, in relevance order.
Survivors(st, rank, center_lat, center_lon, radius_miles) ==
  SelectSeq(SelectSeq(rank, LAMBDA s : st[s].present),
            LAMBDA s : /\ st[s].lat # None /\ st[s].lon # None
                       /\ haversine_miles(center_lat, center_lon, st[s].lat, st[s].lon)
                            <= radius_miles * 100)

\* C9: with a centre and a radius, search asks the collection for
\* min(limit * 20, count) candidates and returns the first `limit` of them that
\* have a coordinate within the radius, in relevance order, each with its
\* distance.
C9_GeoSearch ==
  ( /\ probe.done
    /\ probe.center_lat # None /\ probe.center_lon # None /\ probe.radius_miles # None
    /\ Count(store) > 0 )
  => /\ probe.queried
     /\ probe.fetch_n = Min(probe.n_results * FETCH_FACTOR, Count(store))
     /\ LET sv == Survivors(store, probe.rank, probe.center_lat, probe.center_lon,
                            probe.radius_miles)
        IN  probe.out =
              [i \in 1..Min(probe.n_results, Len(sv)) |->
                 [slug |-> sv[i],
                  distance_miles |->
                    haversine_miles(probe.center_lat, probe.center_lon,
                                    store[sv[i]].lat, store[sv[i]].lon)]]

\* C10: with a resolved centre, the wide-radius search is issued exactly when
\* the call's radius is the default and the first search returned fewer than 3
\* results, after the first search; its results replace the first only when
\* there are more of them.
C10_WiderRetry ==
  \A p \in Callers :
    (Done(p) /\ Searched(p))
    => LET c    == call[p]
           wide == Radius(c.radius_miles) = DEFAULT_RADIUS_MILES
                   /\ Len(c.first) < FEW_RESULTS
       IN  /\ Len(c.issued) = IF wide THEN 2 ELSE 1
           /\ wide => c.issued[2] = LAZY_SCRAPE_RADIUS_MILES
           /\ c.results = IF wide /\ Len(c.wide) > Len(c.first) THEN c.wide
                          ELSE c.first

C10_Witness ==
  \E p \in Callers :
    /\ Done(p) /\ Searched(p) /\ Len(call[p].issued) = 2
    /\ Len(call[p].wide) > Len(call[p].first) /\ call[p].first # <<>>
    /\ call[p].results = call[p].wide

\* The enrichment of lines 123-143 ran in the call of p.
Enriched(p) == call[p].fetched # <<>>

\* C11: a fresh-info fetch that failed (the page request failed, or an exception
\* escaped) leaves the result's alerts and trip reports as the store gave them,
\* and the enrichment keeps every result, in the order of the search.
C11_FailedFetchKeepsData ==
  \A p \in Callers :
    (Done(p) /\ Enriched(p))
    => LET c == call[p]
       IN  /\ Len(c.enriched) = Len(c.results)
           /\ \A i \in 1..Len(c.results) :
                /\ c.enriched[i].slug = c.results[i].slug
                /\ c.fetched[i] \in {"failed", "raised"} => c.enriched[i] = c.meta[i]

\* C12 as stated: a call that evaluates a lazy scrape for a location that is,
\* after normalisation, the query text returns the skip_scrape advisory and
\* launches no scrape.
C12_QueryAsLocationAlways ==
  \A p \in Callers :
    ( /\ Done(p) /\ Searched(p) /\ Evaluated(p)
      /\ Normalize(call[p].location) = Normalize(call[p].query) )
    => (resp[p].advisory = "_skip_scrape" /\ ~call[p].launched)

\* C12 amended: the same for a call that found no result (with 1 or 2 results the
\* location is not rejected for being the query text).
C12_QueryAsLocation ==
  \A p \in Callers :
    ( /\ Done(p) /\ Searched(p) /\ Evaluated(p)
      /\ Normalize(call[p].location) = Normalize(call[p].query)
      /\ call[p].results = <<>> )
    => /\ resp[p] = [advisory |-> "_skip_scrape", trails |-> <<>>]
       /\ ~call[p].launched /\ ~call[p].eligible

C12_Witness ==
  \E p \in Callers :
    /\ Done(p) /\ Searched(p) /\ Evaluated(p)
    /\ call[p].location # call[p].query
    /\ Normalize(call[p].location) = Normalize(call[p].query)
    /\ Normalize(call[p].location) \notin LAZY_SCRAPE_SKIP_LOCATIONS
    /\ call[p].results = <<>>
    /\ resp[p].advisory = "_skip_scrape"

\* C13: when a call with forced rescrape launches a scrape for a key that was in
\* the completed set, the key has been removed from the completed set by the
\* time the new scrape is launched.
C13_RescrapeClearsDone ==
  \A p \in Callers :
    (Done(p) /\ call[p].rescrape /\ call[p].launched) => ~call[p].stale

\* The geocoding of the background task of w failed: no result, a result without
\* a latitude, or an exception.
GeocodeFailedInTask(w) == task[w].geocoded \in {"empty", "nolat", "raise"}

\* C14: a background task whose geocoding failed upserts no trail and never
\* reaches the scrape loop; its steps leave the store and every caller's call
\* and response untouched; and its key is eventually out of the in-progress set.
C14_GeocodeFailureAborts ==
  /\ [](\A w \in Threads :
          GeocodeFailedInTask(w)
          => /\ task[w].ntrails = 0 /\ task[w].added = {}
             /\ task[w].pc \in {"mark", "finally"})
  /\ [][\A w \in Threads :
          (GeocodeFailedInTask(w) \/ GeocodeFailedInTask(w)')
          => (task'[w] # task[w] => UNCHANGED <<store, call, resp>>)]_vars
  /\ \A w \in Threads : \A k \in SearchKeys :
       (GeocodeFailedInTask(w) /\ task[w].loc_key = k) ~> (k \notin scraping_locations)

C14_Witness ==
  /\ \E w \in Threads :
       /\ task[w].geocoded \in {"empty", "nolat"} /\ task[w].pc = "finally"
       /\ task[w].loc_key \in scraping_locations
  /\ \E p \in Callers : Done(p) /\ resp[p].advisory = "_fetching"

\* C15: every trail a background task has scraped within the radius is in the
\* store from the step that scraped it on, and stays there; a task that fails
\* after upserting k trails leaves them stored, and its key is eventually out of
\* the in-progress set.
C15_PartialResultsSurvive ==
  /\ [](\A w \in Threads :
          /\ Cardinality(task[w].added) = task[w].ntrails
          /\ \A s \in task[w].added : store[s] = trail_to_metadata(WTATrail(s, 1)))
  /\ [][\A s \in Slugs : store[s].present => store'[s].present]_vars
  /\ \A w \in Threads : \A k \in SearchKeys :
       (task[w].outcome = "raised" /\ task[w].added # {} /\ task[w].loc_key = k)
         ~> (k \notin scraping_locations)

C15_Witness ==
  \E w \in Threads :
    /\ task[w].pc = "finally" /\ task[w].outcome = "raised"
    /\ task[w].geocoded = "ok" /\ task[w].ntrails = 1
    /\ task[w].added = {"s3"} /\ store["s3"].present
    /\ task[w].loc_key \in scraping_locations

\* The flags an advisory can carry.
AdvisoryFlags == {"_fetching", "_already_scraped", "_skip_scrape", "_geocode_failed"}

\* C16: what a call returns is either its list of trail records and no advisory,
\* or one advisory with one of the four flags and no trail record.
C16_ResponseShape ==
  \A p \in Callers :
    Done(p)
    => \/ /\ resp[p].advisory = "none"
          /\ resp[p].trails = call[p].results
          /\ \A i \in 1..Len(resp[p].trails) : resp[p].trails[i].slug \in Slugs
       \/ /\ resp[p].advisory \in AdvisoryFlags
          /\ resp[p].trails = <<>>

C16_Witness ==
  \E p \in Callers :
    /\ Done(p) /\ resp[p].advisory = "_already_scraped" /\ resp[p].trails = <<>>
    /\ \E s \in Slugs : store[s].present

\* The background thread that runs the scrape of key k.
Running(w, k) == task[w].pc # "free" /\ task[w].loc_key = k

ProbeSlugs == {probe.out[i].slug : i \in 1..Len(probe.out)}

\* C18: a search with a centre and a radius returns no record farther from the
\* centre than the radius, and with radius 0 it returns the record stored at the
\* centre itself.
C18_RadiusFilter ==
  ( /\ probe.done
    /\ probe.center_lat # None /\ probe.center_lon # None /\ probe.radius_miles # None )
  => \A s \in Slugs :
       store[s].present /\ store[s].lat # None /\ store[s].lon # None
       => LET dist == haversine_miles(probe.center_lat, probe.center_lon,
                                      store[s].lat, store[s].lon)
          IN  /\ dist > probe.radius_miles * 100 => s \notin ProbeSlugs
              /\ (probe.radius_miles = 0 /\ dist = 0) => s \in ProbeSlugs

\* C19: a call without location that finds the collection empty returns the
\* empty list, having asked the collection only for its count: no geocoding, no
\* query, no fresh-info fetch, no scrape considered or launched.
C19_EmptyStoreNoUpstream ==
  \A p \in Callers :
    ( /\ Done(p)
      /\ call[p].location = NoLocation
      /\ call[p].count = 0 )
    => /\ resp[p] = [advisory |-> "none", trails |-> <<>>]
       /\ call[p].geocoded = "none"
       /\ call[p].queries = 0
       /\ Len(call[p].issued) = 1
       /\ call[p].fetched = <<>>
       /\ ~call[p].eligible /\ ~call[p].launched

C19_Witness ==
  \E p \in Callers :
    /\ Done(p) /\ call[p].location = NoLocation /\ call[p].count = 0
    /\ call[p].lazy_scrape /\ config.ENABLE_FRESH_RAG
    /\ resp[p] = [advisory |-> "none", trails |-> <<>>]

\* The slugs of the trails of the last direct add_trails call.
UpsertedSlugs == {upserted.trails[i].slug : i \in 1..Len(upserted.trails)}

\* C20: after add_trails, each slug of the list holds one record, the one built
\* from the trail just passed, whatever it held before; every other slug holds
\* what it held; the count has grown by the number of slugs that held nothing;
\* the call returns the length of the list.
C20_UpsertReplaces ==
  upserted.calls > 0
  => /\ \A i \in 1..Len(upserted.trails) :
          store[upserted.trails[i].slug] = trail_to_metadata(upserted.trails[i])
     /\ \A s \in Slugs \ UpsertedSlugs : store[s] = upserted.before[s]
     /\ Count(store) = Count(upserted.before)
                         + Cardinality({s \in UpsertedSlugs : ~upserted.before[s].present})
     /\ upserted.n = Len(upserted.trails)

C20_Witness ==
  /\ upserted.calls = 2
  /\ upserted.trails = <<WTATrail("s4", 2)>>
  /\ upserted.before["s4"] = trail_to_metadata(WTATrail("s4", 1))
  /\ store["s4"].content = 2
  /\ Count(store) = Count(upserted.before)

\* C21: when a scrape_region call with rescrape=True returns (no search_trails
\* call having run beside it), the key of its location and radius is not in the
\* completed set.
C21_RescrapeLeavesKeyCleared ==
  [][( /\ task[Region].pc # "free" /\ task'[Region].pc = "free"
       /\ task[Region].rescrape
       /\ ncalls.search = 0 )
     => LocKey(Normalize(task[Region].location), task[Region].radius)
          \notin scraped_locations']_vars

\* The parameters of a query string: the names before each "=".
ParamNames(query) == {query[i] : i \in {j \in 1..(Len(query) - 1) : query[j + 1] = "="}}

\* The URL of the call is an https URL of alltrails.com whose path is /explore.
ExploreUrl(url) ==
  LET parsed == urlparse(url)
  IN  /\ parsed.scheme = <<"https">>
      /\ parsed.netloc \in {<<"alltrails.com">>, <<"www.", "alltrails.com">>}
      /\ parsed.path = <<"/", "explore">>

\* C22: an https alltrails.com URL with path /explore is reported valid, and
\* returned as given, when its query string has a bounding-box parameter, and is
\* reported invalid when it has none.
C22_ExploreUrl ==
  (validated.done /\ ExploreUrl(validated.input))
  => IF ParamNames(urlparse(validated.input).query) \cap BoundingBoxNames # {}
     THEN validated.out.valid /\ validated.out.url = validated.input
     ELSE ~validated.out.valid

\* The call c has no location, or has lazy scrape off, or has 3 or more results.
Quiet(c) ==
  \/ c.location = NoLocation
  \/ ~c.lazy_scrape
  \/ Len(c.results) >= FEW_RESULTS

\* C23: no step of a call that has no location, or has lazy scrape off, or has 3
\* or more results changes the in-progress set or the completed set or starts a
\* thread, and such a call ends neither eligible for a launch nor having launched.
C23_NoScrapeWithoutTrigger ==
  [][\A p \in Callers :
       (call'[p] # call[p] /\ call'[p].pc # "idle" /\ Quiet(call'[p]))
       => /\ UNCHANGED <<scraping_locations, scraped_locations, task>>
          /\ ~call'[p].eligible /\ ~call'[p].launched
          /\ call'[p].pc \notin {"state", "launch"}]_vars

C23_Witness ==
  \E p \in Callers :
    /\ Done(p) /\ Searched(p) /\ ~call[p].lazy_scrape
    /\ call[p].results = <<>>
    /\ resp[p] = [advisory |-> "none", trails |-> <<>>]
    /\ scraping_locations = {} /\ scraped_locations = {}

\* C24: a step of a background scrape changes the store only at the slug it is
\* scraping, and the record it writes has a coordinate within the scrape radius
\* of the centre the task geocoded; so every trail a task has upserted has a
\* coordinate.
C24_StoredTrailsWithinRadius ==
  [][\A s \in Slugs :
       store'[s] # store[s]
       => \E w \in Threads :
            /\ task[w].pc = "scrape" /\ task[w].slugs[task[w].i] = s
            /\ task[w].geocoded = "ok"
            /\ task'[w].added = task[w].added \cup {s}
            /\ store'[s].present
            /\ store'[s].lat # None /\ store'[s].lon # None
            /\ haversine_miles(task[w].lat, task[w].lon, store'[s].lat, store'[s].lon)
                 <= task[w].radius.v * 100]_vars

C24_Witness ==
  \E w \in Threads :
    /\ task[w].pc = "finally" /\ task[w].outcome = "ok"
    /\ task[w].slugs = WebList
    /\ task[w].added = {"s3", "s4"}
    /\ store["s3"].present /\ store["s4"].present /\ ~store["s5"].present

\* C25: get_store constructs at most one WTAVectorStore in the life of the
\* process, whoever calls it first and however the calls interleave.
C25_SingleStore == handle.built <= 1

\* Two get_store calls that overlapped returned, and they hold different stores.
C25_TwoStores ==
  \E g, h \in Getters :
    /\ handle.pc[g] = "back" /\ handle.pc[h] = "back"
    /\ handle.got[g] # handle.got[h]
    /\ handle.built = 2

\* C26: no two running background threads launched by search_trails have the
\* same key, and the key of a running thread is in the in-progress set until the
\* thread's finally block; a thread is started only for a key that was not in
\* the in-progress set.
C26_OneThreadPerKey ==
  /\ [](\A w, v \in Threads :
          (w # v /\ task[w].pc # "free" /\ task[v].pc # "free")
          => task[w].loc_key # task[v].loc_key)
  /\ [](\A w \in Threads :
          task[w].pc # "free" => task[w].loc_key \in scraping_locations)
  /\ [][\A w \in Threads :
          (task[w].pc = "free" /\ task'[w].pc # "free")
          => /\ task'[w].loc_key \notin scraping_locations
             /\ task'[w].loc_key \in scraping_locations']_vars

\* Two calls for one key both reached the launch; one started the thread, the
\* other found the key in progress under the lock.
C26_Witness ==
  \E p, q \in Callers : \E w \in Threads :
    /\ p # q /\ Done(p) /\ Done(q)
    /\ SearchKey(call[p].location) = SearchKey(call[q].location)
    /\ call[p].eligible /\ call[q].eligible
    /\ call[p].rivals # {} /\ call[q].rivals # {}
    /\ call[p].launched /\ ~call[q].launched
    /\ Running(w, SearchKey(call[p].location))
    /\ \A v \in Threads \ {w} : task[v].pc = "free"

\* C27: the step in which a call returns the fetching advisory either reads the
\* call's key in the in-progress set (at the state read or under the launch
\* lock) or puts it there with the thread it starts.
C27_FetchingMeansInProgress ==
  [][\A p \in Callers :
       (~Done(p) /\ Done(p)' /\ resp'[p].advisory = "_fetching")
       => LET key == SearchKey(call[p].location)
          IN  \/ /\ call[p].pc = "state" /\ key \in scraping_locations
                 /\ call'[p].in_progress /\ ~call'[p].launched
              \/ /\ call[p].pc = "launch" /\ key \in scraping_locations
                 /\ ~call'[p].launched
              \/ /\ call[p].pc = "launch" /\ key \notin scraping_locations
                 /\ key \in scraping_locations' /\ call'[p].launched]_vars

\* A call found nothing, read its key as absent, and then found it in progress
\* under the launch lock: it returns the fetching advisory without launching.
C27_Witness ==
  \E p \in Callers :
    /\ Done(p) /\ resp[p].advisory = "_fetching"
    /\ call[p].eligible /\ ~call[p].in_progress /\ ~call[p].launched
    /\ SearchKey(call[p].location) \in scraping_locations

\* C28: when a background thread launched by search_trails ends, its key is in
\* the completed set exactly if lazy_scrape_and_load returned without raising
\* (with or without coordinate, with or without trails), and the key has left
\* the in-progress set; after a raise the key is in neither set, and a later
\* eligible call for the key that reaches the launch starts a new thread.
C28_MarkedIffReturned ==
  /\ [][\A w \in Threads :
          (task[w].pc = "finally" /\ task'[w].pc = "free")
          => /\ (task[w].outcome = "ok") <=> (task[w].loc_key \in scraped_locations')
             /\ task[w].loc_key \notin scraping_locations']_vars
  /\ [][\A p \in Callers :
          ( /\ call[p].pc = "launch" /\ Done(p)'
            /\ SearchKey(call[p].location) \notin scraping_locations )
          => call'[p].launched]_vars

\* The radius the returned result set was searched with: the wide radius when
\* the retry's results were adopted, else the caller's or the default radius.
RadiusUsed(c) ==
  IF c.wide # <<>> /\ c.results = c.wide /\ c.results # c.first
  THEN LAZY_SCRAPE_RADIUS_MILES
  ELSE Radius(c.radius_miles)

\* C29: when the location of a call geocodes to a coordinate, every trail the
\* call returns lies within the radius used of that coordinate, whatever the
\* coordinate is (latitude 0 included).
C29_ResultsWithinRadius ==
  \A p \in Callers :
    ( /\ Done(p) /\ call[p].location # NoLocation /\ call[p].geocoded = "ok"
      /\ resp[p].advisory = "none" )
    => \A i \in 1..Len(resp[p].trails) :
         LET s == resp[p].trails[i].slug
         IN  haversine_miles(call[p].center_lat, call[p].center_lon,
                             TrailLat(s), TrailLon(s))
               <= RadiusUsed(call[p]) * 100

\* A call that asked for 1 or 2 trails and got that many, for a geocoded
\* location off the deny-list, with lazy scrape on, that did not read its key in
\* either set.
FullButFew(p) ==
  /\ Done(p) /\ call[p].geocoded = "ok" /\ call[p].location # NoLocation
  /\ call[p].n_results \in {1, 2}
  /\ Len(call[p].results) = call[p].n_results
  /\ call[p].lazy_scrape
  /\ Normalize(call[p].location) \notin LAZY_SCRAPE_SKIP_LOCATIONS
  /\ ~call[p].already_scraped /\ ~call[p].in_progress

\* What C30 says of such a call: with the default radius it ran the wide retry,
\* and it launched a background scrape and returned its results.
RetriedAndLaunched(p) ==
  /\ call[p].radius_miles = None => Len(call[p].issued) = 2
  /\ call[p].launched
  /\ resp[p] = [advisory |-> "none", trails |-> call[p].results]

\* C30 as stated: the threshold of 3 is independent of n_results, so a call
\* that got its full 1 or 2 trails still retries wide and launches a scrape.
C30_FullResultsAlwaysLaunch ==
  \A p \in Callers : FullButFew(p) => RetriedAndLaunched(p)

\* C30 amended: the same, for a location that holds none of the feature words
\* (such a location is answered with the skip_scrape advisory instead).
C30_FullResultsLaunch ==
  \A p \in Callers :
    ( /\ FullButFew(p)
      /\ \A w \in FEATURE_WORDS : ~contains(Normalize(call[p].location), w) )
    => RetriedAndLaunched(p)

C30_Witness ==
  \E p \in Callers : \E w \in Threads :
    /\ FullButFew(p) /\ call[p].n_results = 2 /\ call[p].radius_miles = None
    /\ ~call[p].rescrape
    /\ Len(call[p].first) = 2 /\ Len(call[p].issued) = 2
    /\ call[p].launched /\ Len(resp[p].trails) = 2
    /\ Running(w, SearchKey(call[p].location))

====
